---- MODULE Spec2Model ----
(***************************************************************************)
(* PlaySync: the playlist transfer engine of main.py (get_tracks,          *)
(* add_to_target, convert_playlist, merge_playlists, compare_playlists)    *)
(* together with get_playlist_tracks and the batch add of the Spotify and  *)
(* YouTube Music adapters.                                                 *)
(*                                                                         *)
(* A step of the model is one call of a collaborator (the platform SDK     *)
(* behind an adapter, or the user's input) together with the code that     *)
(* runs up to the next such call.  The result of every collaborator call   *)
(* is an input of the step: it returns one of the values the upstream API  *)
(* can return, or it raises.                                               *)
(***************************************************************************)
EXTENDS Integers, Sequences, FiniteSets, TLC

VARIABLES
    op,                \* the operation running: "convert", "merge", "compare", "fetch"
    pc,                \* the position of the running operation
    source_type,       \* convert_playlist: the source platform typed by the user
    sources,           \* merge_playlists: the platforms of the sources dict, in order
    fetched,           \* the track list get_tracks returned for each source so far
    all_tracks,        \* merge_playlists: the set of (name, artist) pairs
    tracks,            \* the track list handed to add_to_target
    resolved_targets,  \* convert_playlist: resolved_targets
    outcome,           \* how the operation ended ("running" until it does)
    ti,                \* index of the target being processed
    caps,              \* the add operations the Apple Music client exposes
    calls,             \* collaborator calls of the running add_to_target, in order
    k,                 \* index of the track a track loop is at
    track_ids,         \* SpotifyClient.add_tracks: track_ids
    added,             \* YouTubeMusicClient.add_tracks: added
    batch_ret,         \* the value add_tracks returned (-1: it did not return)
    ret,               \* what the running add_to_target returned: "none", "True", "False"
    playlists,         \* the playlists created on the platforms, in creation order
    done,              \* one record per add_to_target call that has returned
    report,            \* compare_playlists: what it prints (empty until it does)
    upstream           \* get_playlist_tracks: the response of the platform's API

vars == << op, pc, source_type, sources, fetched, all_tracks, tracks,
           resolved_targets, outcome, ti, caps, calls, k, track_ids, added,
           batch_ret, ret, playlists, done, report, upstream >>

----------------------------------------------------------------------------
(* Bounds of the model *)

MaxTracks == 2        \* longest track list a source returns
MaxSel == 2           \* most names in a typed target selection
MaxResults == 2       \* most results a YouTube Music search returns

----------------------------------------------------------------------------
(* Data *)

Platforms == {"Spotify", "Apple Music", "YouTube Music"}

\* the order in which main builds the clients dict
PlatformOrder == << "Spotify", "Apple Music", "YouTube Music" >>

\* a platform name the user can type that is no key of the clients dict
UnknownPlatform == "Tidal"

\* a token of the selection that is empty after strip()
Blank == ""

Track(n, a, al) == [name |-> n, artist |-> a, album |-> al]

\* the tracks upstream playlists are made of; the first and the third share
\* their (name, artist) pair and differ in the album
TrackPool ==
    { Track("Song A", "Artist X", "Album 1"),
      Track("Song B", "Artist Y", "Album 1"),
      Track("Song A", "Artist X", "Album 2") }

SeqsUpTo(S, n) == UNION { [1..m -> S] : m \in 0..n }

\* the track lists a source of a merge can return
TrackLists == SeqsUpTo(TrackPool, MaxTracks)

\* the playlist a conversion reads: it holds the pool's tracks in turn, so
\* the third track repeats the first one's name and artist
UpstreamTrack(i) ==
    IF i % 3 = 1 THEN Track("Song A", "Artist X", "Album 1")
    ELSE IF i % 3 = 2 THEN Track("Song B", "Artist Y", "Album 1")
    ELSE Track("Song A", "Artist X", "Album 2")

\* the track lists the source of a conversion can return
SourceLists == { [i \in 1..n |-> UpstreamTrack(i)] : n \in 0..MaxTracks }

Range(s) == { s[i] : i \in DOMAIN s }

Last(s) == s[Len(s)]

----------------------------------------------------------------------------
(* Collaborators *)

\* one call of a collaborator: the operation, its argument, whether it
\* returned ("ok") or raised ("raise"), and the value it returned
Call(o, a, r, v) == [op |-> o, arg |-> a, res |-> r, out |-> v]

CallResults == {"ok", "raise"}

\* the identifier of the r-th result the platform's search returns for q
Hit(q, r) == [q |-> q, rank |-> r]

\* what a search for q can return when it returns: no result, or the first
\* m results of the platform's ranking
SearchOutcomes(q, most) == { [i \in 1..m |-> Hit(q, i)] : m \in 0..most }

\* limit=1 of the Spotify search: the Web API returns at most that many items
SpotifyLimit == 1

\* the add operations a client exposes (hasattr): the Spotify and the YouTube
\* Music client define add_tracks and no add_track
Capabilities(t) ==
    IF t \in {"Spotify", "YouTube Music"} THEN {"add_tracks"} ELSE caps

CapSets == SUBSET {"add_tracks", "add_track"}

\* clients_dict of add_to_target: main hands convert_playlist the clients
\* without the source's, and merge_playlists all of them
ClientsDict ==
    IF op = "convert" THEN Platforms \ {source_type} ELSE Platforms

\* the identifier under which the Apple Music client adds a track
NativeId(track) == Hit(track.name \o " " \o track.artist, 1)

----------------------------------------------------------------------------
(* SpotifyClient.add_tracks, YouTubeMusicClient.add_tracks *)

\* a variant that puts the artist first
QueryArtistFirst(track) == track.artist \o " " \o track.name

\* query = f"{track['name']} {track['artist']}"
Query(track) == track.name \o " " \o track.artist

\* a variant that puts the new identifier in front
SpAppendInFront(ids, items) ==
    IF items # << >> THEN << items[1] >> \o ids ELSE ids

\* if result['tracks']['items']: track_ids.append(items[0]['id'])
SpAppend(ids, items) ==
    IF items # << >> THEN Append(ids, items[1]) ELSE ids

\* a variant that calls playlist_add_items without the "if track_ids" guard
SpAfterLoopUnguarded(ids) == "sp_add"

\* if track_ids: playlist_add_items(...); return len(track_ids)
SpAfterLoop(ids) == IF ids # << >> THEN "sp_add" ELSE "ret_true"

\* a variant that adds every result of the search instead of the first
YtVideoIdsAll(search_results) == search_results

\* the items one YouTube add puts into the playlist: [video_id], the first result
YtVideoIds(search_results) == << search_results[1] >>

\* added += 1
YtCount(n, search_results) == n + 1

\* a variant that swallows the exception of a search or an add and goes on
AfterBatchCallSwallowing(res, next) == next

\* a variant whose handler of a batch exception reports success
AfterBatchCallSucceeding(res, next) == IF res = "raise" THEN "ret_true" ELSE next

\* a search or an add that raises inside add_tracks leaves the method, and
\* add_to_target's handler returns False
AfterBatchCall(res, next) == IF res = "raise" THEN "ret_false" ELSE next

\* a variant that indexes search_results[0] without the "if search_results"
\* guard: an empty result raises IndexError and leaves the method
AfterYtSearchUnguarded(res, search_results, miss) ==
    IF res = "raise" \/ search_results = << >> THEN "ret_false" ELSE "yt_add"

\* if search_results: ... add ...; otherwise the loop goes on with the next track
AfterYtSearch(res, search_results, miss) ==
    AfterBatchCall(res, IF search_results # << >> THEN "yt_add" ELSE miss)

----------------------------------------------------------------------------
(* add_to_target *)

\* a variant whose handler of a failed create logs and falls through
AfterCreateFallingThrough(res, next) == next

\* a variant whose handler of a failed create tries again
AfterCreateRetrying(res, next) == IF res = "raise" THEN "a_create" ELSE next

\* try: playlist_id = create_playlist(...)  except: ... return False
AfterCreate(res, next) == IF res = "raise" THEN "ret_false" ELSE next

\* a variant that tests for add_track first
DispatchPerTrackFirst(c) ==
    IF "add_track" \in c THEN "per_track"
    ELSE IF "add_tracks" \in c THEN "batch"
    ELSE "none"

\* if hasattr(add_tracks) ... elif hasattr(add_track) ... else: return False
Dispatch(c) ==
    IF "add_tracks" \in c THEN "batch"
    ELSE IF "add_track" \in c THEN "per_track"
    ELSE "none"

\* a variant without the try/except around add_track: the exception leaves
\* the loop and the outer handler returns False
AfterAddTrackAborting(res, next) == IF res = "raise" THEN "ret_false" ELSE next

\* the per-track loop: try: add_track(...) except Exception: log
AfterAddTrack(res, next) == next

\* where a track loop standing at track kk of n goes on
LoopPc(kk, n, body, after) == IF kk <= n THEN body ELSE after

\* a variant whose else branch reports success
EntryPcSilent(t, n) ==
    LET path == Dispatch(Capabilities(t)) IN
    IF path = "batch"
    THEN IF t = "Spotify" THEN LoopPc(1, n, "sp_search", SpAfterLoop(<< >>))
         ELSE IF t = "YouTube Music" THEN LoopPc(1, n, "yt_search", "ret_true")
         ELSE "ap_batch"
    ELSE IF path = "per_track" THEN LoopPc(1, n, "a_track", "ret_true")
    ELSE "ret_true"

\* the first position of the add phase for target t and n tracks
EntryPc(t, n) ==
    LET path == Dispatch(Capabilities(t)) IN
    IF path = "batch"
    THEN IF t = "Spotify" THEN LoopPc(1, n, "sp_search", SpAfterLoop(<< >>))
         ELSE IF t = "YouTube Music" THEN LoopPc(1, n, "yt_search", "ret_true")
         ELSE "ap_batch"
    ELSE IF path = "per_track" THEN LoopPc(1, n, "a_track", "ret_true")
    ELSE "ret_false"

\* return True / return False of add_to_target, or go on at p
Goto(p) ==
    IF p = "ret_true" THEN pc' = "a_return" /\ ret' = "True"
    ELSE IF p = "ret_false" THEN pc' = "a_return" /\ ret' = "False"
    ELSE pc' = p /\ ret' = ret

\* a variant that puts new items at the head of the playlist
AddItemsInFront(pls, pid, ids) == [pls EXCEPT ![pid].items = ids \o @]

\* add_playlist_items / playlist_add_items: the items go to the playlist's end
AddItems(pls, pid, ids) == [pls EXCEPT ![pid].items = @ \o ids]

\* the playlist add_to_target is filling: the one it created last
Pid == Len(playlists)

\* a variant that walks the target list from its end
TargetReversed == resolved_targets[Len(resolved_targets) + 1 - ti]

\* for target_type in resolved_targets
Target == resolved_targets[ti]

\* a variant that goes on without a client
ClientLookupUnchecked(t, dict) == "a_create"

\* target_client = clients_dict.get(target_type); if target_client is None:
\* return False
ClientLookup(t, dict) == IF t \in dict THEN "a_create" ELSE "ret_false"

\* add_to_target starts for the next target: the client lookup
StartTarget ==
    /\ pc = "a_start"
    /\ Goto(ClientLookup(Target, ClientsDict))
    /\ UNCHANGED << report, upstream, op, source_type, sources, fetched, all_tracks, tracks,
                    resolved_targets, outcome, ti, caps, calls, k, track_ids,
                    added, batch_ret, playlists, done >>

\* a variant that leaves no playlist behind when the target is rejected
PlaylistsAfterCreateRolledBack(pls, t, res, next) ==
    IF res = "ok" /\ next # "ret_false"
    THEN Append(pls, [platform |-> t, items |-> << >>])
    ELSE pls

\* the platform's playlists once create_playlist has returned or raised:
\* nothing in add_to_target deletes a playlist
PlaylistsAfterCreate(pls, t, res, next) ==
    IF res = "ok" THEN Append(pls, [platform |-> t, items |-> << >>]) ELSE pls

\* create_playlist, and the choice of the add path
CreatePlaylist ==
    /\ pc = "a_create"
    /\ \E res \in CallResults :
        LET next == AfterCreate(res, EntryPc(Target, Len(tracks)))
            batch == next # "ret_false" /\ Dispatch(Capabilities(Target)) = "batch"
        IN  /\ calls' = calls \o << Call("create_playlist", Target, res, << >>) >>
                              \o (IF batch
                                  THEN << Call("add_tracks", tracks, "ok", << >>) >>
                                  ELSE << >>)
            /\ playlists' = PlaylistsAfterCreate(playlists, Target, res, next)
            /\ batch_ret' = IF next = "ret_true" /\ batch THEN 0 ELSE batch_ret
            /\ Goto(next)
    /\ UNCHANGED << report, upstream, op, source_type, sources, fetched, all_tracks, tracks,
                    resolved_targets, outcome, ti, caps, k, track_ids, added, done >>

\* SpotifyClient.add_tracks: the search for track k
SpSearch ==
    /\ pc = "sp_search"
    /\ LET q == Query(tracks[k]) IN
       \E res \in CallResults :
       \E items \in IF res = "ok" THEN SearchOutcomes(q, SpotifyLimit) ELSE {<< >>} :
        LET ids == IF res = "ok" THEN SpAppend(track_ids, items) ELSE track_ids
            next == AfterBatchCall(res, LoopPc(k + 1, Len(tracks), "sp_search",
                                               SpAfterLoop(ids)))
        IN  /\ calls' = Append(calls, Call("search", q, res, items))
            /\ track_ids' = ids
            /\ k' = k + 1
            /\ batch_ret' = IF next = "ret_true" THEN Len(ids) ELSE batch_ret
            /\ Goto(next)
    /\ UNCHANGED << report, upstream, op, source_type, sources, fetched, all_tracks, tracks,
                    resolved_targets, outcome, ti, caps, added, playlists, done >>

\* SpotifyClient.add_tracks: playlist_add_items(playlist_id, track_ids)
SpAdd ==
    /\ pc = "sp_add"
    /\ \E res \in CallResults :
        /\ calls' = Append(calls, Call("add_items", track_ids, res, << >>))
        /\ playlists' = IF res = "ok" THEN AddItems(playlists, Pid, track_ids)
                        ELSE playlists
        /\ batch_ret' = IF res = "ok" THEN Len(track_ids) ELSE batch_ret
        /\ Goto(AfterBatchCall(res, "ret_true"))
    /\ UNCHANGED << report, upstream, op, source_type, sources, fetched, all_tracks, tracks,
                    resolved_targets, outcome, ti, caps, k, track_ids, added, done >>

\* YouTubeMusicClient.add_tracks: the search for track k
YtSearch ==
    /\ pc = "yt_search"
    /\ LET q == Query(tracks[k]) IN
       \E res \in CallResults :
       \E results \in IF res = "ok" THEN SearchOutcomes(q, MaxResults) ELSE {<< >>} :
        LET miss == LoopPc(k + 1, Len(tracks), "yt_search", "ret_true")
            next == AfterYtSearch(res, results, miss)
        IN  /\ calls' = Append(calls, Call("search", q, res, results))
            /\ k' = IF next = "yt_add" THEN k ELSE k + 1
            /\ batch_ret' = IF next = "ret_true" THEN added ELSE batch_ret
            /\ Goto(next)
    /\ UNCHANGED << report, upstream, op, source_type, sources, fetched, all_tracks, tracks,
                    resolved_targets, outcome, ti, caps, track_ids, added,
                    playlists, done >>

\* YouTubeMusicClient.add_tracks: add_playlist_items(playlist_id, [video_id])
YtAdd ==
    /\ pc = "yt_add"
    /\ \E res \in CallResults :
        LET search_results == Last(calls).out
            ids == YtVideoIds(search_results)
            n == IF res = "ok" THEN YtCount(added, search_results) ELSE added
            next == AfterBatchCall(res, LoopPc(k + 1, Len(tracks), "yt_search", "ret_true"))
        IN  /\ calls' = Append(calls, Call("add_items", ids, res, << >>))
            /\ playlists' = IF res = "ok" THEN AddItems(playlists, Pid, ids)
                            ELSE playlists
            /\ added' = n
            /\ k' = k + 1
            /\ batch_ret' = IF next = "ret_true" THEN n ELSE batch_ret
            /\ Goto(next)
    /\ UNCHANGED << report, upstream, op, source_type, sources, fetched, all_tracks, tracks,
                    resolved_targets, outcome, ti, caps, track_ids, done >>

\* the per-track fallback: add_track(playlist_id, track) for track k
AddTrack ==
    /\ pc = "a_track"
    /\ \E res \in CallResults :
        LET next == AfterAddTrack(res, LoopPc(k + 1, Len(tracks), "a_track", "ret_true"))
        IN  /\ calls' = Append(calls, Call("add_track", tracks[k], res, << >>))
            /\ playlists' = IF res = "ok"
                            THEN AddItems(playlists, Pid, << NativeId(tracks[k]) >>)
                            ELSE playlists
            /\ k' = k + 1
            /\ Goto(next)
    /\ UNCHANGED << report, upstream, op, source_type, sources, fetched, all_tracks, tracks,
                    resolved_targets, outcome, ti, caps, track_ids, added,
                    batch_ret, done >>

\* the strictly increasing index sequences of 1..n: the tracks a batch add
\* of unknown implementation may have added when it returns or raises
RECURSIVE Picks(_)
Picks(n) ==
    IF n = 0 THEN { << >> }
    ELSE Picks(n - 1) \cup { Append(s, n) : s \in Picks(n - 1) }

\* add_tracks of the Apple Music client: what it does upstream, as one call
AppleAddTracks ==
    /\ pc = "ap_batch"
    /\ \E res \in CallResults :
       \E pick \in Picks(Len(tracks)) :
        LET ids == [i \in 1..Len(pick) |-> NativeId(tracks[pick[i]])] IN
        /\ calls' = Append(calls, Call("apple_batch", tracks, res, << >>))
        /\ playlists' = AddItems(playlists, Pid, ids)
        /\ batch_ret' = IF res = "ok" THEN Len(ids) ELSE batch_ret
        /\ Goto(AfterBatchCall(res, "ret_true"))
    /\ UNCHANGED << report, upstream, op, source_type, sources, fetched, all_tracks, tracks,
                    resolved_targets, outcome, ti, caps, k, track_ids, added, done >>

\* a variant that leaves the target loop at the first target that fails
AfterTargetStopping(ok, i, n) ==
    IF ok = "False" THEN "finished" ELSE LoopPc(i + 1, n, "a_start", "finished")

\* for target_type in resolved_targets: try: ok = add_to_target(...): the
\* loop goes on whatever add_to_target returned
AfterTarget(ok, i, n) == LoopPc(i + 1, n, "a_start", "finished")

\* the playlist the running add_to_target created (0: none)
CreatedPid ==
    IF \E i \in DOMAIN calls :
           calls[i].op = "create_playlist" /\ calls[i].res = "ok"
    THEN Pid ELSE 0

\* add_to_target has returned to its caller; its locals are gone
Return ==
    /\ pc = "a_return"
    /\ done' = Append(done, [target |-> Target, ret |-> ret, pid |-> CreatedPid])
    /\ LET next == IF op = "convert"
                   THEN AfterTarget(ret, ti, Len(resolved_targets))
                   ELSE "finished"
       IN  /\ pc' = IF next = "finished" THEN "end" ELSE next
           /\ outcome' = IF next = "finished" THEN "finished" ELSE outcome
           /\ ti' = IF next = "finished" THEN ti ELSE ti + 1
    /\ ret' = "none"
    /\ calls' = << >>
    /\ k' = 1
    /\ track_ids' = << >>
    /\ added' = 0
    /\ batch_ret' = -1
    /\ UNCHANGED << report, upstream, op, source_type, sources, fetched, all_tracks, tracks,
                    resolved_targets, caps, playlists >>

----------------------------------------------------------------------------
(* get_tracks *)

\* the list get_tracks returns when get_playlist_tracks returned lst or raised
GetTracks(src, res, lst) ==
    IF src \notin Platforms THEN << >>
    ELSE IF res = "raise" THEN << >>
    ELSE lst

\* a variant that leaves the loop over the sources at a fetch that failed
AfterSourceStopping(res, i, n, body, after) ==
    IF res = "raise" THEN after ELSE LoopPc(i + 1, n, body, after)

\* for source_type, source_id in sources.items(): tracks = get_tracks(...):
\* the loop goes on with the next source whatever the fetch met
AfterSource(res, i, n, body, after) == LoopPc(i + 1, n, body, after)

----------------------------------------------------------------------------
(* convert_playlist *)

\* what the user can type at the target prompt: "all", or names separated by
\* commas (nothing typed is the empty sequence); a lone name is never blank,
\* the prompt's strip() leaves that the empty input
SelTokens == Platforms \cup {UnknownPlatform, Blank}

Selections ==
    { [all |-> TRUE, toks |-> << >>] } \cup
    { [all |-> FALSE, toks |-> s] : s \in SeqsUpTo(SelTokens, MaxSel) \ { << Blank >> } }

\* list(target_types.keys()) for the dict main builds: the clients but the source's
AvailableTargets(src) == SelectSeq(PlatformOrder, LAMBDA p : p # src)

\* chosen = [s.strip() for s in sel.split(",") if s.strip()]
Chosen(sel) == SelectSeq(sel.toks, LAMBDA s : s # Blank)

\* invalid = [c for c in chosen if c not in available_targets]
Invalid(sel, available) == SelectSeq(Chosen(sel), LAMBDA c : c \notin Range(available))

\* a variant that does not take the source out
ResolvedTargetsUnfiltered(sel, available, src) ==
    IF sel.all THEN available ELSE Chosen(sel)

\* resolved_targets, for a selection that is accepted
ResolvedTargets(sel, available, src) ==
    IF sel.all THEN SelectSeq(available, LAMBDA t : t # src)
    ELSE SelectSeq(Chosen(sel), LAMBDA t : t # src)

\* how the prompt for the targets ends: "go" when the target loop is entered
SelectOutcome(sel, available, src) ==
    IF ~sel.all /\ sel.toks = << >> THEN "no_selection"
    ELSE IF ~sel.all /\ Invalid(sel, available) # << >> THEN "invalid_selection"
    ELSE IF ResolvedTargets(sel, available, src) = << >> THEN "no_targets"
    ELSE "go"

\* a variant without the "if not tracks" check
AfterFetchUnchecked(got) == "go"

\* if not tracks: "No tracks found in source playlist; aborting conversion."
AfterFetch(got) == IF got = << >> THEN "no_tracks" ELSE "go"

\* the source client lookup and tracks = get_tracks(...)
ConvertFetch ==
    /\ pc = "c_fetch"
    /\ IF source_type \notin Platforms
       THEN /\ outcome' = "no_source_client"
            /\ pc' = "end"
            /\ UNCHANGED << fetched, tracks >>
       ELSE \E res \in CallResults :
            \E lst \in IF res = "ok" THEN SourceLists ELSE {<< >>} :
             LET got == GetTracks(source_type, res, lst) IN
             /\ fetched' = Append(fetched, [source |-> source_type, res |-> res,
                                            tracks |-> got])
             /\ tracks' = got
             /\ outcome' = IF AfterFetch(got) = "go" THEN outcome ELSE AfterFetch(got)
             /\ pc' = IF AfterFetch(got) = "go" THEN "c_name" ELSE "end"
    /\ UNCHANGED << report, upstream, op, source_type, sources, all_tracks, resolved_targets, ti,
                    caps, calls, k, track_ids, added, batch_ret, ret,
                    playlists, done >>

\* playlist_name = input(...).strip()
ConvertName ==
    /\ pc = "c_name"
    /\ \E empty \in BOOLEAN :
        /\ outcome' = IF empty THEN "cancelled" ELSE outcome
        /\ pc' = IF empty THEN "end" ELSE "c_select"
    /\ UNCHANGED << report, upstream, op, source_type, sources, fetched, all_tracks, tracks,
                    resolved_targets, ti, caps, calls, k, track_ids, added,
                    batch_ret, ret, playlists, done >>

\* sel = input(...).strip(), and the resolution of the targets
ConvertSelect ==
    /\ pc = "c_select"
    /\ \E sel \in Selections :
        LET available == AvailableTargets(source_type)
            how == SelectOutcome(sel, available, source_type)
        IN  /\ outcome' = IF how = "go" THEN outcome ELSE how
            /\ pc' = IF how = "go" THEN "a_start" ELSE "end"
            /\ resolved_targets' = IF how = "go"
                                   THEN ResolvedTargets(sel, available, source_type)
                                   ELSE << >>
            /\ ti' = IF how = "go" THEN 1 ELSE ti
    /\ UNCHANGED << report, upstream, op, source_type, sources, fetched, all_tracks, tracks, caps,
                    calls, k, track_ids, added, batch_ret, ret, playlists, done >>

----------------------------------------------------------------------------
(* merge_playlists *)

\* the sources dict main builds: at least two platforms, in the clients' order
SourceChoices ==
    { SelectSeq(PlatformOrder, LAMBDA p : p \in S) :
        S \in { X \in SUBSET Platforms : Cardinality(X) > 1 } }

\* a variant that keeps the album in the key
KeyWithAlbum(track) == << track.name, track.artist, track.album >>

\* (track['name'], track['artist'])
Key(track) == << track.name, track.artist >>

\* {"name": t[0], "artist": t[1], "album": ""}
MergedTrack(key) == Track(key[1], key[2], "")

\* the orders in which a set can be listed
Orders(S) == { s \in [1..Cardinality(S) -> S] : Range(s) = S }

\* a variant that rebinds all_tracks for every source instead of adding to it
AddAllOverwriting(all, got) == { Key(got[i]) : i \in DOMAIN got }

\* for track in tracks: all_tracks.add((track['name'], track['artist']))
AddAll(all, got) == all \cup { Key(got[i]) : i \in DOMAIN got }

\* merged_tracks = [... for t in all_tracks]: the set listed in some order
MergedLists(all) ==
    { [i \in DOMAIN order |-> MergedTrack(order[i])] : order \in Orders(all) }

\* tracks = get_tracks(...) of the next source, all_tracks.add(...), and after
\* the last source merged_tracks
MergeFetch ==
    /\ pc = "m_fetch"
    /\ LET src == sources[Len(fetched) + 1] IN
       \E res \in CallResults :
       \E lst \in IF res = "ok" THEN TrackLists ELSE {<< >>} :
        LET got == GetTracks(src, res, lst)
            all == AddAll(all_tracks, got)
            next == AfterSource(res, Len(fetched) + 1, Len(sources), "m_fetch", "m_target")
        IN  /\ fetched' = Append(fetched, [source |-> src, res |-> res, tracks |-> got])
            /\ all_tracks' = all
            /\ pc' = next
            /\ IF next = "m_target"
               THEN tracks' \in MergedLists(all)
               ELSE tracks' = tracks
    /\ UNCHANGED << report, upstream, op, source_type, sources, resolved_targets,
                    outcome, ti, caps, calls, k, track_ids, added, batch_ret, ret,
                    playlists, done >>

\* the prompt for the target platform, add_to_target(...); the lists the
\* sources returned are gone
MergeTarget ==
    /\ pc = "m_target"
    /\ \E target_type \in Platforms \cup {UnknownPlatform} :
        /\ resolved_targets' = << target_type >>
        /\ ti' = 1
        /\ pc' = "a_start"
    /\ fetched' = << >>
    /\ UNCHANGED << report, upstream, op, source_type, sources, all_tracks, tracks,
                    outcome, caps, calls, k, track_ids, added, batch_ret, ret,
                    playlists, done >>

----------------------------------------------------------------------------
(* compare_playlists, and the menu's check before it *)

\* the platforms the user includes at menu choice 3, in the order of the
\* clients dict: any number of them, none included
CompareChoices ==
    { SelectSeq(PlatformOrder, LAMBDA p : p \in S) : S \in SUBSET Platforms }

\* a variant of the menu's check that lets a single source through
EnoughSourcesOne(srcs) == Len(srcs) > 0

\* if len(sources) > 1
EnoughSources(srcs) == Len(srcs) > 1

\* {(t['name'], t['artist']) for t in tracks}
PairSet(got) == { << got[i].name, got[i].artist >> : i \in DOMAIN got }

\* a variant that intersects the first two sets only
CommonOfTwo(sets) == sets[1] \cap sets[2]

\* common = set.intersection(*track_sets.values())
Common(sets) == { x \in sets[1] : \A i \in DOMAIN sets : x \in sets[i] }

\* a variant that lists the whole set of the source
UniqueWhole(ts, common) == ts

\* unique = tracks - common
Unique(ts, common) == ts \ common

\* what compare_playlists prints
Report(sets) ==
    [ track_sets |-> sets,
      common |-> Common(sets),
      unique |-> [i \in DOMAIN sets |-> Unique(sets[i], Common(sets))] ]

\* menu choice 3: compare_playlists(clients, sources) when there are sources
\* enough, "Need at least 2 playlists to compare." otherwise
CompareStart ==
    /\ pc = "cmp_start"
    /\ pc' = IF EnoughSources(sources) THEN "cmp_fetch" ELSE "end"
    /\ outcome' = IF EnoughSources(sources) THEN outcome ELSE "need_two"
    /\ UNCHANGED << report, upstream, op, source_type, sources, fetched, all_tracks,
                    tracks, resolved_targets, ti, caps, calls, k, track_ids,
                    added, batch_ret, ret, playlists, done >>

\* tracks = get_tracks(...) of the next source, its track set, and after the
\* last source the common and the unique sets
CompareFetch ==
    /\ pc = "cmp_fetch"
    /\ LET src == sources[Len(fetched) + 1] IN
       \E res \in CallResults :
       \E lst \in IF res = "ok" THEN TrackLists ELSE {<< >>} :
        LET got == GetTracks(src, res, lst)
            all == Append(fetched, [source |-> src, res |-> res, tracks |-> got])
            next == AfterSource(res, Len(fetched) + 1, Len(sources), "cmp_fetch", "end")
        IN  /\ fetched' = all
            /\ pc' = next
            /\ IF next = "end"
               THEN /\ report' = << Report([i \in DOMAIN all |-> PairSet(all[i].tracks)]) >>
                    /\ outcome' = "compared"
               ELSE /\ report' = report
                    /\ outcome' = outcome
    /\ UNCHANGED << upstream, op, source_type, sources, all_tracks, tracks,
                    resolved_targets, ti, caps, calls, k, track_ids, added,
                    batch_ret, ret, playlists, done >>

----------------------------------------------------------------------------
(* get_playlist_tracks of the Spotify and the YouTube Music adapter *)

FetchAdapters == {"Spotify", "YouTube Music"}

\* the shapes an item of the upstream track list can have: a complete dict, a
\* dict without a title, one without artists, one whose album is not a dict,
\* an item that is not a dict, and for Spotify an item whose track is None
ItemForms(src) ==
    IF src = "Spotify"
    THEN {"dict", "track_none", "no_artists"}
    ELSE {"dict", "no_title", "no_artists", "album_str", "not_dict"}

Items(src) == { [form |-> f, track |-> t] : f \in ItemForms(src), t \in TrackPool }

\* what the platform's API answers: it raises, it answers nothing, it answers
\* without the track list, or it answers with a track list; "no_id" is a
\* playlist URL no id can be extracted from
ResponseKinds(src) ==
    IF src = "Spotify"
    THEN {"raise", "no_list", "ok"}
    ELSE {"no_id", "raise", "none", "no_list", "ok"}

Responses(src) ==
    { [kind |-> kd, items |-> << >>] : kd \in ResponseKinds(src) \ {"ok"} }
    \cup { [kind |-> "ok", items |-> its] : its \in SeqsUpTo(Items(src), MaxTracks) }

Raises == [res |-> "raise", tracks |-> << >>]

Returns(lst) == [res |-> "ok", tracks |-> lst]

\* track['name'], track['artists'][0]['name'], track['album']['name']
SpotifyGetPlaylistTracks(resp) ==
    IF resp.kind # "ok" THEN Raises
    ELSE IF \E i \in DOMAIN resp.items : resp.items[i].form # "dict" THEN Raises
    ELSE Returns([i \in DOMAIN resp.items |-> resp.items[i].track])

\* track.get('title', 'Unknown'), ... 'Unknown', ... ''
YouTubeTrack(item) ==
    Track(IF item.form = "no_title" THEN "Unknown" ELSE item.track.name,
          IF item.form = "no_artists" THEN "Unknown" ELSE item.track.artist,
          IF item.form = "album_str" THEN "" ELSE item.track.album)

\* if isinstance(track, dict)
IsDict(item) == item.form # "not_dict"

YouTubeGetPlaylistTracks(resp) ==
    IF resp.kind \in {"no_id", "raise"} THEN Raises
    ELSE IF resp.kind \in {"none", "no_list"} THEN Returns(<< >>)
    ELSE LET dicts == SelectSeq(resp.items, IsDict)
         IN  Returns([i \in DOMAIN dicts |-> YouTubeTrack(dicts[i])])

\* client.get_playlist_tracks(playlist_id)
GetPlaylistTracks ==
    /\ pc = "f_call"
    /\ LET r == IF source_type = "Spotify"
                THEN SpotifyGetPlaylistTracks(upstream[1])
                ELSE YouTubeGetPlaylistTracks(upstream[1])
       IN  fetched' = << [source |-> source_type, res |-> r.res, tracks |-> r.tracks] >>
    /\ pc' = "end"
    /\ outcome' = "fetched"
    /\ UNCHANGED << report, upstream, op, source_type, sources, all_tracks, tracks,
                    resolved_targets, ti, caps, calls, k, track_ids, added,
                    batch_ret, ret, playlists, done >>

----------------------------------------------------------------------------
(* Specifications *)

Start ==
    /\ fetched = << >>
    /\ all_tracks = {}
    /\ tracks = << >>
    /\ resolved_targets = << >>
    /\ outcome = "running"
    /\ ti = 0
    /\ caps \in CapSets
    /\ calls = << >>
    /\ k = 1
    /\ track_ids = << >>
    /\ added = 0
    /\ batch_ret = -1
    /\ ret = "none"
    /\ playlists = << >>
    /\ done = << >>
    /\ report = << >>
    /\ upstream = << >>

\* menu choice 1: convert_playlist(clients, source_type, target_clients, source_id)
InitConvert ==
    /\ op = "convert"
    /\ pc = "c_fetch"
    /\ source_type \in Platforms \cup {UnknownPlatform}
    /\ sources = << >>
    /\ Start

\* menu choice 2: merge_playlists(clients, sources)
InitMerge ==
    /\ op = "merge"
    /\ pc = "m_fetch"
    /\ source_type = ""
    /\ sources \in SourceChoices
    /\ Start

\* menu choice 3: the sources the user included
InitCompare ==
    /\ op = "compare"
    /\ pc = "cmp_start"
    /\ source_type = ""
    /\ sources \in CompareChoices
    /\ Start

Init == InitConvert \/ InitMerge \/ InitCompare

Next ==
    \/ ConvertFetch
    \/ ConvertName
    \/ ConvertSelect
    \/ MergeFetch
    \/ MergeTarget
    \/ CompareStart
    \/ CompareFetch
    \/ StartTarget
    \/ CreatePlaylist
    \/ SpSearch
    \/ SpAdd
    \/ YtSearch
    \/ YtAdd
    \/ AddTrack
    \/ AppleAddTracks
    \/ Return

Spec == Init /\ [][Next]_vars

\* the steps of a conversion
NextConvert ==
    \/ ConvertFetch
    \/ ConvertName
    \/ ConvertSelect
    \/ StartTarget
    \/ CreatePlaylist
    \/ SpSearch
    \/ SpAdd
    \/ YtSearch
    \/ YtAdd
    \/ AddTrack
    \/ AppleAddTracks
    \/ Return

\* a conversion whose every step is eventually taken: the program is one
\* thread of straight-line code, the prompts are answered, and every call of
\* a collaborator returns or raises
SpecConvert == InitConvert /\ [][NextConvert]_vars /\ WF_vars(NextConvert)

\* the steps of a merge and of a comparison
NextMerge ==
    \/ MergeFetch
    \/ MergeTarget
    \/ CompareStart
    \/ CompareFetch
    \/ StartTarget
    \/ CreatePlaylist
    \/ SpSearch
    \/ SpAdd
    \/ YtSearch
    \/ YtAdd
    \/ AddTrack
    \/ AppleAddTracks
    \/ Return

\* menu choices 2 and 3 alone
SpecMerge == (InitMerge \/ InitCompare) /\ [][NextMerge]_vars

\* one call of an adapter's get_playlist_tracks on an upstream response
InitFetch ==
    /\ op = "fetch"
    /\ pc = "f_call"
    /\ source_type \in FetchAdapters
    /\ sources = << >>
    /\ fetched = << >>
    /\ all_tracks = {}
    /\ tracks = << >>
    /\ resolved_targets = << >>
    /\ outcome = "running"
    /\ ti = 0
    /\ caps = {}
    /\ calls = << >>
    /\ k = 1
    /\ track_ids = << >>
    /\ added = 0
    /\ batch_ret = -1
    /\ ret = "none"
    /\ playlists = << >>
    /\ done = << >>
    /\ report = << >>
    /\ upstream \in { << r >> : r \in Responses(source_type) }

NextFetch == GetPlaylistTracks

SpecFetch == InitFetch /\ [][NextFetch]_vars

----------------------------------------------------------------------------
(* Properties *)

\* the positions inside add_to_target after its client lookup
TransferPcs ==
    {"a_create", "sp_search", "sp_add", "yt_search", "yt_add", "a_track",
     "ap_batch", "a_return"}

CallsOf(o) == SelectSeq(calls, LAMBDA c : c.op = o)

Searches == CallsOf("search")

\* some collaborator call of the running add_to_target raised
Raised == \E i \in DOMAIN calls : calls[i].res = "raise"

CreateRaised ==
    \E i \in DOMAIN calls : calls[i].op = "create_playlist" /\ calls[i].res = "raise"

\* the running add_to_target has created its playlist
Created == pc \in TransferPcs /\ CreatedPid > 0

Path == Dispatch(Capabilities(Target))

\* tracks_added of the running transfer: the items of its playlist
TracksAdded == Len(playlists[Pid].items)

RECURSIVE Concat(_)
Concat(ss) == IF ss = << >> THEN << >> ELSE Head(ss) \o Concat(Tail(ss))

\* the items the add calls that returned have put into the playlist
ItemsAdded ==
    LET oks == SelectSeq(CallsOf("add_items"), LAMBDA c : c.res = "ok")
    IN  Concat([i \in DOMAIN oks |-> oks[i].arg])

\* the first result of every search that found something, in order
FirstHits ==
    LET hits == SelectSeq(Searches, LAMBDA c : c.out # << >>)
    IN  [i \in DOMAIN hits |-> hits[i].out[1]]

\* C1: on a target that exposes only add_track, add_track is called once for
\* every track of the list, in order, whichever of the calls raise; the
\* playlist holds exactly the tracks whose call returned
C1_PerTrackIsolation ==
    (Created /\ pc \in {"a_track", "a_return"} /\ Path = "per_track") =>
        LET adds == CallsOf("add_track")
            oks == SelectSeq(adds, LAMBDA c : c.res = "ok")
        IN  /\ Len(adds) = (IF pc = "a_return" THEN Len(tracks) ELSE k - 1)
            /\ \A i \in DOMAIN adds : adds[i].arg = tracks[i]
            /\ playlists[Pid].items = [i \in DOMAIN oks |-> NativeId(oks[i].arg)]

\* a per-track transfer has finished: the add of the first track raised, the
\* add of the second one was still made and its track is in the playlist
C1_Witness ==
    /\ Created /\ pc = "a_return" /\ Path = "per_track"
    /\ "add_tracks" \notin Capabilities(Target)
    /\ Len(tracks) >= 2
    /\ CallsOf("add_track")[1].res = "raise"
    /\ CallsOf("add_track")[2].res = "ok"
    /\ playlists[Pid].items = << NativeId(tracks[2]) >>

\* C2: in every state the number of tracks added to any playlist, and the
\* count a batch add keeps and returns, is at most the number of tracks requested
C2_AddedAtMostRequested ==
    /\ \A p \in DOMAIN playlists : Len(playlists[p].items) <= Len(tracks)
    /\ batch_ret <= Len(tracks)
    /\ added <= Len(tracks)
    /\ Len(track_ids) <= Len(tracks)

\* a YouTube batch add has returned having added every requested track,
\* after a search that returned more than one result
C2_Witness ==
    /\ Created /\ pc = "a_return" /\ Target = "YouTube Music"
    /\ Len(tracks) >= 2
    /\ batch_ret = Len(tracks)
    /\ TracksAdded = Len(tracks)
    /\ \E i \in DOMAIN calls : calls[i].op = "search" /\ Len(calls[i].out) > 1

\* C3: when a conversion that entered its target loop ends, add_to_target has
\* been called for every target of resolved_targets, in order, whatever the
\* earlier targets returned
C3_EveryTargetAttempted ==
    (op = "convert" /\ pc = "end" /\ resolved_targets # << >>) =>
        /\ outcome = "finished"
        /\ Len(done) = Len(resolved_targets)
        /\ \A i \in DOMAIN done : done[i].target = resolved_targets[i]

\* a conversion has ended whose first target failed at create_playlist and
\* whose second target was attempted and succeeded
C3_Witness ==
    /\ op = "convert" /\ pc = "end"
    /\ Len(resolved_targets) = 2
    /\ Len(done) = 2
    /\ done[1].ret = "False" /\ done[1].pid = 0
    /\ done[2].ret = "True" /\ done[2].pid > 0

\* C4: when create_playlist raises, add_to_target returns False at once: the
\* failed create is the last call of the transfer, so no add_tracks,
\* add_track, search or add is made, and no playlist exists for it
C4_CreateFailureAborts ==
    (pc \in TransferPcs /\ CreateRaised) =>
        /\ pc = "a_return"
        /\ ret = "False"
        /\ Last(calls).op = "create_playlist"
        /\ \A i \in DOMAIN calls : calls[i].op = "create_playlist"
        /\ CreatedPid = 0

\* add_to_target has returned False after create_playlist raised
C4_Witness ==
    /\ pc = "a_return" /\ CreateRaised /\ ret = "False"
    /\ Len(tracks) >= 2
    /\ Len(calls) = 1

\* C5 as claimed: a transfer whose add phase has finished reports success
\* only if tracks_added equals tracks_requested
C5_SuccessOnlyIfAllAdded ==
    (Created /\ pc = "a_return" /\ Path # "none") =>
        (ret = "True" => TracksAdded = Len(tracks))

\* C6: in the batch add of the Spotify and of the YouTube client a search
\* without result neither raises nor ends the batch: a batch add ends early
\* only by a call that raised, and one in which no call raised has searched
\* every track, in order, and has added the first result of every search
\* that found something
C6_MissDoesNotAbort ==
    (Created /\ pc = "a_return" /\ Target \in {"Spotify", "YouTube Music"}) =>
        /\ ret = "False" => Last(calls).res = "raise"
        /\ ~Raised =>
            /\ ret = "True"
            /\ Len(Searches) = Len(tracks)
            /\ \A i \in DOMAIN Searches : Searches[i].arg = Query(tracks[i])
            /\ playlists[Pid].items = FirstHits

\* a YouTube batch add has returned: the search for the first track found
\* nothing, the second track was still searched, found and added
C6_Witness ==
    /\ Created /\ pc = "a_return" /\ Target = "YouTube Music"
    /\ ~Raised /\ ret = "True"
    /\ Len(tracks) >= 2
    /\ Searches[1].out = << >>
    /\ Searches[2].out # << >>
    /\ playlists[Pid].items = << Searches[2].out[1] >>

\* tracks_added of a transfer that has returned
AddedOf(d) == IF d.pid = 0 THEN 0 ELSE Len(playlists[d.pid].items)

\* C7 as claimed: what add_to_target hands its caller after recovering from
\* per-track errors (a search without result in the batch add of the Spotify
\* or the YouTube client) carries tracks_added and the failures: two such
\* transfers that hand back the same value have added the same number of tracks
C7_ResultCarriesCounts ==
    \A i, j \in DOMAIN done :
        (/\ done[i].target \in {"Spotify", "YouTube Music"}
         /\ done[j].target \in {"Spotify", "YouTube Music"}
         /\ done[i].ret = "True"
         /\ done[j].ret = "True") => AddedOf(done[i]) = AddedOf(done[j])

\* C8: once the playlist is created, a target that exposes add_tracks has
\* add_tracks invoked exactly once, with the full track list, and add_track
\* never, also when it exposes both; a target without add_tracks never has
\* add_tracks invoked
C8_BatchPreferred ==
    (Created /\ pc # "a_create") =>
        IF "add_tracks" \in Capabilities(Target)
        THEN /\ Len(CallsOf("add_tracks")) = 1
             /\ CallsOf("add_tracks")[1].arg = tracks
             /\ CallsOf("add_track") = << >>
        ELSE CallsOf("add_tracks") = << >>

\* a transfer to a client exposing both add_tracks and add_track has
\* returned True after one add_tracks call and no add_track call
C8_Witness ==
    /\ Created /\ pc = "a_return" /\ ret = "True"
    /\ Capabilities(Target) = {"add_tracks", "add_track"}
    /\ Len(tracks) >= 2
    /\ Len(CallsOf("add_tracks")) = 1
    /\ CallsOf("add_track") = << >>
    /\ TracksAdded = 2

\* C9: when a call inside a batch add raises, it is the last call of the
\* transfer (no further search or add), add_to_target returns False, no
\* delete is issued, and the created playlist still exists holding the
\* tracks added before the exception
C9_BatchRaiseNoRollback ==
    (Created /\ Path = "batch" /\ Raised) =>
        /\ pc = "a_return"
        /\ ret = "False"
        /\ Last(calls).res = "raise"
        /\ \A i \in 1..(Len(calls) - 1) : calls[i].res = "ok"
        /\ \A i \in DOMAIN calls : calls[i].op # "delete_playlist"
        /\ Pid \in DOMAIN playlists
        /\ playlists[Pid].platform = Target
        /\ Target \in {"Spotify", "YouTube Music"} => playlists[Pid].items = ItemsAdded

\* a YouTube batch add has raised at the add of its second track: the first
\* track is still in the playlist
C9_Witness ==
    /\ Created /\ pc = "a_return" /\ Target = "YouTube Music"
    /\ ret = "False"
    /\ Last(calls).op = "add_items" /\ Last(calls).res = "raise"
    /\ Len(CallsOf("add_items")) = 2
    /\ playlists[Pid].items = CallsOf("add_items")[1].arg

\* C10 as claimed: a transfer whose track list is empty is still carried
\* out: a conversion whose source returned an empty track list is not
\* abandoned for having no tracks
C10_EmptyListStillTransferred ==
    (op = "convert" /\ fetched # << >> /\ Last(fetched).res = "ok"
        /\ Last(fetched).tracks = << >>) => outcome # "no_tracks"

\* C10, amended: add_to_target called with an empty track list (by
\* merge_playlists) that has created its playlist returns True on a Spotify,
\* YouTube Music or per-track target, without any search or add call and
\* leaving the created playlist empty; convert_playlist never starts a
\* transfer with an empty track list
C10_EmptyListTransfer ==
    /\ (Created /\ pc = "a_return" /\ tracks = << >>
            /\ (Target \in {"Spotify", "YouTube Music"} \/ Path = "per_track")) =>
        /\ ret = "True"
        /\ \A i \in DOMAIN calls : calls[i].op \in {"create_playlist", "add_tracks"}
        /\ playlists[Pid].platform = Target
        /\ playlists[Pid].items = << >>
    /\ (op = "convert" /\ tracks = << >>) => (playlists = << >> /\ done = << >>)

\* a merge whose sources yielded no track has created an empty playlist on
\* Spotify and add_to_target has returned True
C10_Witness ==
    /\ op = "merge" /\ Created /\ pc = "a_return"
    /\ tracks = << >>
    /\ Target = "Spotify"
    /\ ret = "True"
    /\ playlists[Pid].items = << >>

\* the (name, artist) pairs of a track list
Pairs(lst) == { << lst[i].name, lst[i].artist >> : i \in DOMAIN lst }

\* the pairs of a track list, in its order
PairList(lst) == [i \in DOMAIN lst |-> << lst[i].name, lst[i].artist >>]

\* C11 as claimed: what add_to_target hands back for a Spotify or YouTube
\* Music target whose playlist was created and received no track differs from
\* what it hands back for such a target whose create_playlist failed
C11_DegradedDistinctFromCreateFailed ==
    \A i, j \in DOMAIN done :
        (/\ done[i].target \in {"Spotify", "YouTube Music"}
         /\ done[i].pid > 0
         /\ AddedOf(done[i]) = 0
         /\ done[j].target \in {"Spotify", "YouTube Music"} \cap ClientsDict
         /\ done[j].pid = 0) => done[i].ret # done[j].ret

\* C12 as claimed: a merge of two sources whose lists share no (name, artist)
\* pair yields a merged list as long as the two lists together
C12_DisjointMergeLength ==
    (op = "merge" /\ pc = "m_target" /\ Len(fetched) = 2
        /\ Pairs(fetched[1].tracks) \cap Pairs(fetched[2].tracks) = {}) =>
        Len(tracks) = Len(fetched[1].tracks) + Len(fetched[2].tracks)

\* C12, amended: a merge of two sources whose lists share no (name, artist)
\* pair yields a merged list with one entry per distinct pair of the first
\* list and one per distinct pair of the second; its length is the sum of the
\* two lengths when neither list repeats a pair
C12_DisjointMergeDistinct ==
    (op = "merge" /\ pc = "m_target" /\ Len(fetched) = 2
        /\ Pairs(fetched[1].tracks) \cap Pairs(fetched[2].tracks) = {}) =>
        LET A == fetched[1].tracks
            B == fetched[2].tracks
        IN  /\ Len(tracks) = Cardinality(Pairs(A)) + Cardinality(Pairs(B))
            /\ Pairs(tracks) = Pairs(A) \cup Pairs(B)
            /\ (Cardinality(Pairs(A)) = Len(A) /\ Cardinality(Pairs(B)) = Len(B)) =>
                   Len(tracks) = Len(A) + Len(B)

\* two sources were merged that share no pair; the first repeats a pair, and
\* the merged list is shorter than the two lists together
C12_Witness ==
    /\ op = "merge" /\ pc = "m_target" /\ Len(fetched) = 2
    /\ Pairs(fetched[1].tracks) \cap Pairs(fetched[2].tracks) = {}
    /\ Len(fetched[1].tracks) = 2
    /\ Cardinality(Pairs(fetched[1].tracks)) = 1
    /\ Len(fetched[2].tracks) = 1
    /\ Len(tracks) = 2

\* C13: a merge of two sources that return the same list yields exactly one
\* merged entry for every distinct (name, artist) pair of that list, and no
\* other entry
C13_SelfMerge ==
    (op = "merge" /\ pc = "m_target" /\ Len(fetched) = 2
        /\ fetched[1].tracks = fetched[2].tracks) =>
        LET A == fetched[1].tracks IN
        /\ Len(tracks) = Cardinality(Pairs(A))
        /\ Pairs(tracks) = Pairs(A)
        /\ \A p \in Pairs(A) :
               Cardinality({ i \in DOMAIN tracks : PairList(tracks)[i] = p }) = 1

\* a list of two tracks with the same name and artist was merged with itself
\* into one entry
C13_Witness ==
    /\ op = "merge" /\ pc = "m_target" /\ Len(fetched) = 2
    /\ fetched[1].tracks = fetched[2].tracks
    /\ Len(fetched[1].tracks) = 2
    /\ Cardinality(Pairs(fetched[1].tracks)) = 1
    /\ Len(tracks) = 1

\* C14: a comparison of two sources reports a common set and two unique sets
\* that together are the union of the two sources' pairs, the common set
\* disjoint from either unique set
C14_CompareTwoPartition ==
    (op = "compare" /\ report # << >> /\ Len(sources) = 2) =>
        LET r == report[1]
            A == Pairs(fetched[1].tracks)
            B == Pairs(fetched[2].tracks)
        IN  /\ r.common \cup r.unique[1] \cup r.unique[2] = A \cup B
            /\ r.common \cap r.unique[1] = {}
            /\ r.common \cap r.unique[2] = {}

\* two sources were compared that share a pair, the first holding a pair the
\* second lacks
C14_Witness ==
    /\ op = "compare" /\ report # << >> /\ Len(sources) = 2
    /\ report[1].common # {}
    /\ report[1].unique[1] # {}
    /\ Pairs(fetched[1].tracks) # Pairs(fetched[2].tracks)

\* C15: a comparison asked for with fewer than two sources fetches no source
\* and computes no common or unique set; it ends with the message that two
\* playlists are needed
C15_CompareNeedsTwo ==
    (op = "compare" /\ Len(sources) < 2) =>
        /\ fetched = << >>
        /\ report = << >>
        /\ pc = "end" => outcome = "need_two"

\* a comparison with a single source has ended with that message
C15_Witness ==
    /\ op = "compare" /\ Len(sources) = 1
    /\ pc = "end" /\ outcome = "need_two"
    /\ fetched = << >>

\* C16: add_to_target on a target that has neither add_tracks nor add_track
\* returns False, having called nothing but create_playlist; the created
\* playlist is empty
C16_CapabilityMissing ==
    (Created /\ pc = "a_return"
        /\ Capabilities(Target) \cap {"add_tracks", "add_track"} = {}) =>
        /\ ret = "False"
        /\ \A i \in DOMAIN calls : calls[i].op = "create_playlist"
        /\ playlists[Pid].items = << >>

\* a playlist was created on a target without either operation, for a list
\* with tracks, and add_to_target returns False
C16_Witness ==
    /\ Created /\ pc = "a_return"
    /\ Capabilities(Target) = {}
    /\ tracks # << >>
    /\ ret = "False"

\* C17 as claimed: when a conversion is rejected for an unknown source
\* platform or for a selected target that is not available, no source has been
\* fetched, no playlist created and no search or add call made
C17_RejectedBeforeAnyCall ==
    (op = "convert" /\ outcome \in {"no_source_client", "invalid_selection"}) =>
        /\ fetched = << >>
        /\ playlists = << >>
        /\ calls = << >>
        /\ done = << >>

\* C18: a conversion whose get_playlist_tracks raised creates no playlist and
\* makes no search or add call on any target: it ends for want of tracks
C18_FetchErrorAborts ==
    (op = "convert" /\ fetched # << >> /\ fetched[1].res = "raise") =>
        /\ playlists = << >>
        /\ calls = << >>
        /\ done = << >>
        /\ pc \notin TransferPcs \cup {"a_start"}

\* a conversion has ended after its source raised
C18_Witness ==
    /\ op = "convert" /\ fetched # << >> /\ fetched[1].res = "raise"
    /\ pc = "end" /\ outcome = "no_tracks"

\* C19: a comparison reports as common exactly the pairs every source holds,
\* and as unique to a source exactly its pairs that some source lacks
C19_CompareCommonUnique ==
    (op = "compare" /\ report # << >>) =>
        LET r == report[1]
            S(i) == Pairs(fetched[i].tracks)
            All == UNION { S(i) : i \in DOMAIN fetched }
        IN  /\ Len(fetched) = Len(sources) /\ Len(sources) >= 2
            /\ r.common = { p \in All : \A i \in DOMAIN fetched : p \in S(i) }
            /\ \A i \in DOMAIN fetched :
                   r.unique[i] = { p \in S(i) : \E j \in DOMAIN fetched : p \notin S(j) }

\* three sources were compared; a pair held by the first two and not by the
\* third is reported under both, next to a pair common to all
C19_Witness ==
    /\ op = "compare" /\ report # << >> /\ Len(sources) = 3
    /\ report[1].common # {}
    /\ \E p \in Pairs(fetched[1].tracks) \cap Pairs(fetched[2].tracks) :
        /\ p \notin Pairs(fetched[3].tracks)
        /\ p \in report[1].unique[1] \cap report[1].unique[2]

\* C20 as claimed: get_playlist_tracks raises, or the upstream response was
\* not without its track list and the call returns one track for every item
\* of it (none for a response that is empty altogether)
C20_NeverTruncates ==
    (op = "fetch" /\ fetched # << >>) =>
        \/ fetched[1].res = "raise"
        \/ /\ upstream[1].kind \in {"ok", "none"}
           /\ Len(fetched[1].tracks) = Len(upstream[1].items)

\* the identifiers handed to the add calls made so far, raised ones included
ItemsOffered ==
    LET adds == CallsOf("add_items")
    IN  Concat([i \in DOMAIN adds |-> adds[i].arg])

\* C21: in the batch add of the Spotify and of the YouTube client the i-th
\* search is the only search for the i-th track and asks for its name, a
\* blank and its artist; every identifier handed to an add call is the first
\* result of the search for its track, in the order of the tracks, whatever
\* number of results the search returned
C21_FirstResultOfOneSearch ==
    (pc \in TransferPcs /\ Created /\ Target \in {"Spotify", "YouTube Music"}) =>
        LET searches == Searches
            hits == FirstHits
            offered == ItemsOffered
        IN  /\ Len(searches) <= Len(tracks)
            /\ \A i \in DOMAIN searches :
                   searches[i].arg = tracks[i].name \o " " \o tracks[i].artist
            /\ Len(offered) <= Len(hits)
            /\ \A i \in DOMAIN offered : offered[i] = hits[i]
            /\ \A i \in DOMAIN hits : hits[i].rank = 1
            /\ (pc = "a_return" /\ ~Raised) => playlists[Pid].items = hits

\* a YouTube batch add of two tracks has returned; both searches returned two
\* results and the playlist holds the first result of each
C21_Witness ==
    /\ Created /\ pc = "a_return" /\ Target = "YouTube Music" /\ ~Raised
    /\ Len(tracks) = 2
    /\ Len(Searches) = 2
    /\ Len(Searches[1].out) = 2 /\ Len(Searches[2].out) = 2
    /\ playlists[Pid].items = << Searches[1].out[1], Searches[2].out[1] >>

\* C22: in a conversion the source has been fetched before any target is
\* begun; the first call made for a target is its create_playlist, made once,
\* so every search and add follows it; and while target ti is worked on,
\* add_to_target has returned for exactly the targets before it, in the order
\* of resolved_targets, their playlists created in that order
C22_ProgramOrder ==
    (op = "convert") =>
        /\ (pc \in TransferPcs \cup {"a_start"} \/ playlists # << >>
                \/ calls # << >> \/ done # << >>) => Len(fetched) = 1
        /\ calls # << >> =>
            /\ calls[1].op = "create_playlist"
            /\ \A i \in 2..Len(calls) : calls[i].op # "create_playlist"
            /\ calls[1].arg = resolved_targets[ti]
        /\ pc \in TransferPcs \cup {"a_start"} =>
            /\ Len(done) = ti - 1
            /\ \A i \in DOMAIN done : done[i].target = resolved_targets[i]
        /\ \A i, j \in DOMAIN done :
               (i < j /\ done[i].pid > 0 /\ done[j].pid > 0) => done[i].pid < done[j].pid
        /\ \A i \in DOMAIN done :
               done[i].pid > 0 => playlists[done[i].pid].platform = resolved_targets[i]

\* the second of two different targets is being worked on: its playlist is
\* created and a search made, after the first target's transfer has returned
\* with a playlist of its own
C22_Witness ==
    /\ op = "convert" /\ ti = 2 /\ pc = "yt_add"
    /\ resolved_targets[1] # resolved_targets[2]
    /\ Len(done) = 1 /\ done[1].pid = 1
    /\ Len(playlists) = 2
    /\ Len(calls) >= 3
    /\ Len(fetched) = 1

\* C23: add_to_target for a platform without a client returns False having
\* called no collaborator and created nothing, and a conversion whose source
\* platform has no client ends without a fetch, a create or an add
C23_NoClientAborts ==
    /\ (pc \in TransferPcs /\ resolved_targets[ti] \notin Platforms) =>
        /\ pc = "a_return"
        /\ ret = "False"
        /\ calls = << >>
        /\ CreatedPid = 0
        /\ \A p \in DOMAIN playlists : playlists[p].platform \in Platforms
    /\ (op = "convert" /\ source_type \notin Platforms) =>
        /\ pc \in {"c_fetch", "end"}
        /\ pc = "end" => outcome = "no_source_client"
        /\ fetched = << >>
        /\ playlists = << >>
        /\ calls = << >>
        /\ done = << >>

\* a merge of some tracks was sent to a platform without a client and
\* add_to_target has returned False
C23_Witness ==
    /\ op = "merge" /\ pc = "a_return"
    /\ resolved_targets[ti] = UnknownPlatform
    /\ tracks # << >>
    /\ ret = "False"
    /\ calls = << >>

\* the calls of the running transfer that raised
RaisedCalls == SelectSeq(calls, LAMBDA c : c.res = "raise")

\* C24: add_to_target returns True exactly when the target has a client,
\* create_playlist returned, the target has add_tracks or add_track, and, with
\* add_tracks, no call of the batch add raised; without add_tracks and with
\* add_track it returns True whatever add_track calls raised
C24_ReturnValue ==
    (pc = "a_return") =>
        LET c == Capabilities(resolved_targets[ti])
            configured == resolved_targets[ti] \in ClientsDict
            created == /\ calls # << >>
                       /\ calls[1].op = "create_playlist"
                       /\ calls[1].res = "ok"
        IN  /\ ret \in {"True", "False"}
            /\ ret = "True" <=>
                  /\ configured
                  /\ created
                  /\ c \cap {"add_tracks", "add_track"} # {}
                  /\ "add_tracks" \in c => RaisedCalls = << >>
            /\ (configured /\ created /\ "add_tracks" \notin c /\ "add_track" \in c) =>
                  /\ ret = "True"
                  /\ Len(CallsOf("add_track")) = Len(tracks)

\* a per-track transfer of two tracks has returned True although both
\* add_track calls raised
C24_Witness ==
    /\ pc = "a_return" /\ ret = "True"
    /\ Capabilities(resolved_targets[ti]) = {"add_track"}
    /\ Len(tracks) = 2
    /\ Len(RaisedCalls) = 2
    /\ playlists[Pid].items = << >>

\* C25: a target with a client and with neither add_tracks nor add_track is
\* rejected only after create_playlist was called; when that call returned,
\* an empty playlist exists on the target, and it still exists, empty, after
\* add_to_target has returned
C25_RejectedAfterCreate ==
    /\ (pc = "a_return" /\ resolved_targets[ti] \in ClientsDict
            /\ Capabilities(resolved_targets[ti]) \cap {"add_tracks", "add_track"} = {}) =>
        /\ Len(calls) = 1
        /\ calls[1].op = "create_playlist"
        /\ calls[1].res = "ok" =>
            /\ Len(playlists) >= 1
            /\ playlists[Len(playlists)] =
                   [platform |-> resolved_targets[ti], items |-> << >>]
            /\ Len(playlists) = Cardinality({ i \in DOMAIN done : done[i].pid > 0 }) + 1
    /\ \A i \in DOMAIN done :
           (/\ done[i].pid > 0
            /\ done[i].target \in ClientsDict
            /\ Capabilities(done[i].target) \cap {"add_tracks", "add_track"} = {}) =>
               /\ done[i].pid \in DOMAIN playlists
               /\ playlists[done[i].pid] = [platform |-> done[i].target, items |-> << >>]

\* a conversion has ended whose first target had neither operation: its
\* transfer returned False and the playlist created for it is there, empty
C25_Witness ==
    /\ op = "convert" /\ pc = "end"
    /\ caps = {}
    /\ Len(done) >= 1
    /\ done[1].target = "Apple Music"
    /\ done[1].ret = "False"
    /\ done[1].pid = 1
    /\ playlists[1] = [platform |-> "Apple Music", items |-> << >>]

\* C26: in the Spotify batch add nothing is added while tracks are searched;
\* there is at most one playlist_add_items call, made after every track was
\* searched, holding the identifiers found in the order of the tracks, and
\* none when no track was found; the playlist holds either nothing or, once
\* that call returned, all of them; after a search that raised it holds nothing
C26_SpotifyAllOrNothing ==
    (pc \in TransferPcs /\ resolved_targets[ti] = "Spotify" /\ Created) =>
        LET adds == CallsOf("add_items")
            searches == Searches
            hits == FirstHits
            items == playlists[Pid].items
        IN  /\ Len(adds) <= 1
            /\ adds # << >> =>
                /\ Last(calls).op = "add_items"
                /\ Len(searches) = Len(tracks)
                /\ \A i \in DOMAIN searches : searches[i].res = "ok"
                /\ adds[1].arg = hits
                /\ hits # << >>
            /\ pc = "sp_add" => (Len(searches) = Len(tracks) /\ hits # << >>)
            /\ (pc = "a_return" /\ ~Raised /\ hits # << >>) => adds # << >>
            /\ items = (IF adds # << >> /\ adds[1].res = "ok" THEN hits ELSE << >>)
            /\ (\E i \in DOMAIN searches : searches[i].res = "raise") =>
                (adds = << >> /\ items = << >> /\ pc = "a_return" /\ ret = "False")

\* a Spotify batch add of two tracks has ended at the search for the second
\* one, which raised after the first one was found: the playlist is empty
C26_Witness ==
    /\ Created /\ pc = "a_return" /\ resolved_targets[ti] = "Spotify"
    /\ Len(tracks) = 2
    /\ Len(Searches) = 2
    /\ Searches[1].out # << >>
    /\ Searches[2].res = "raise"
    /\ playlists[Pid].items = << >>
    /\ ret = "False"

\* the first results of the searches for the tracks before track n that found
\* something, in order
HitsBefore(n) ==
    LET found == SelectSeq(SubSeq(Searches, 1, n - 1), LAMBDA c : c.out # << >>)
    IN  [i \in DOMAIN found |-> found[i].out[1]]

\* C27: the YouTube batch add searches the tracks in order and adds each one
\* found before it searches the next; when the search or the add for track k
\* raises, that call is the last one, k searches were made, and the playlist
\* holds exactly the first results found for the tracks before k, in order
C27_YouTubeIncremental ==
    (pc \in TransferPcs /\ resolved_targets[ti] = "YouTube Music" /\ Created) =>
        LET searches == Searches
            n == Len(searches)
            items == playlists[Pid].items
        IN  /\ n <= Len(tracks)
            /\ \A i \in DOMAIN searches : searches[i].arg = Query(tracks[i])
            /\ \A i \in DOMAIN calls :
                   calls[i].op = "add_items" =>
                       /\ calls[i - 1].op = "search"
                       /\ calls[i - 1].out # << >>
                       /\ calls[i].arg = << calls[i - 1].out[1] >>
            /\ Raised =>
                /\ pc = "a_return" /\ ret = "False"
                /\ Last(calls).res = "raise"
                /\ \A i \in 1..(Len(calls) - 1) : calls[i].res = "ok"
                /\ items = HitsBefore(n)
            /\ (~Raised /\ pc = "yt_add") => items = HitsBefore(n)
            /\ (~Raised /\ pc # "yt_add") => items = HitsBefore(n + 1)

\* a YouTube batch add of two tracks has ended at the search for the second
\* one, which raised: the first track, found and added, is in the playlist
C27_Witness ==
    /\ Created /\ pc = "a_return" /\ resolved_targets[ti] = "YouTube Music"
    /\ Len(tracks) = 2
    /\ Len(Searches) = 2
    /\ Last(calls).op = "search" /\ Last(calls).res = "raise"
    /\ Searches[1].out # << >>
    /\ playlists[Pid].items = << Searches[1].out[1] >>
    /\ ret = "False"

\* the sources fetched so far whose get_playlist_tracks raised
FailedSources == { i \in DOMAIN fetched : fetched[i].res = "raise" }

\* C28: a source whose fetch raised counts as an empty track list and the
\* other sources are still fetched: a comparison with such a source reports
\* no common pair and, for every source, all its pairs as unique; a merge
\* yields the pairs of the sources that were read, every pair once
C28_FailedSourceIsEmpty ==
    /\ (op = "compare" /\ report # << >> /\ FailedSources # {}) =>
        /\ Len(fetched) = Len(sources)
        /\ \A i \in FailedSources : fetched[i].tracks = << >>
        /\ report[1].common = {}
        /\ \A j \in DOMAIN fetched : report[1].unique[j] = Pairs(fetched[j].tracks)
    /\ (op = "merge" /\ pc = "m_target") =>
        /\ Len(fetched) = Len(sources)
        /\ \A i \in FailedSources : fetched[i].tracks = << >>
        /\ Pairs(tracks) =
               UNION { Pairs(fetched[j].tracks) : j \in DOMAIN fetched \ FailedSources }
        /\ Len(tracks) = Cardinality(Pairs(tracks))

\* two sources were compared; the fetch of the first raised, the second one
\* was read and both its pairs are reported as unique to it
C28_Witness ==
    /\ op = "compare" /\ report # << >> /\ Len(sources) = 2
    /\ FailedSources = {1}
    /\ Cardinality(Pairs(fetched[2].tracks)) = 2
    /\ report[1].common = {}
    /\ report[1].unique[2] = Pairs(fetched[2].tracks)

\* C29: the targets of a conversion never include its source platform: not
\* in any state, and at the prompt for no selection the user can type,
\* whether the list of available targets holds the source (it does not when
\* main calls) or not; a selection that is accepted resolves to at least one
\* target, and a conversion that ended for want of another target has created
\* nothing
C29_SourceNeverTarget ==
    (op = "convert") =>
        /\ source_type \notin Range(resolved_targets)
        /\ pc = "c_select" =>
            \A sel \in Selections :
            \A available \in {AvailableTargets(source_type), PlatformOrder} :
                LET r == ResolvedTargets(sel, available, source_type) IN
                /\ source_type \notin Range(r)
                /\ SelectOutcome(sel, available, source_type) = "go" => r # << >>
                /\ r = << >> =>
                       SelectOutcome(sel, available, source_type) # "go"
        /\ outcome = "no_targets" =>
            /\ pc = "end"
            /\ resolved_targets = << >>
            /\ playlists = << >>
            /\ calls = << >>
            /\ done = << >>

\* a conversion with tracks and a name has ended because the selection left
\* no target
C29_Witness ==
    /\ op = "convert" /\ pc = "end" /\ outcome = "no_targets"
    /\ tracks # << >>
    /\ playlists = << >>

\* an upper bound of the steps a transfer of n tracks still takes at pc
TransferSteps(n) ==
    IF pc = "a_start" THEN 2 * n + 3
    ELSE IF pc = "a_create" THEN 2 * n + 2
    ELSE IF pc \in {"sp_search", "yt_search", "a_track"} THEN 2 * (n - k + 1) + 1
    ELSE IF pc = "yt_add" THEN 2 * (n - k + 1)
    ELSE IF pc \in {"sp_add", "ap_batch"} THEN 2
    ELSE 1

\* an upper bound of the steps a conversion still takes: those of the
\* running transfer and of the targets after it; before the target loop, the
\* prompts and the longest target loop there can be
Steps ==
    IF pc = "end" THEN 0
    ELSE IF pc \in TransferPcs \cup {"a_start"}
    THEN (Len(resolved_targets) - ti) * (2 * Len(tracks) + 3) + TransferSteps(Len(tracks))
    ELSE (MaxSel + Cardinality(Platforms)) * (2 * MaxTracks + 3)
             + (IF pc = "c_fetch" THEN 3 ELSE IF pc = "c_name" THEN 2 ELSE 1)

\* C30: every step of a conversion lowers a bound on the steps it still
\* takes, and a conversion that is not at its end can take a step, so every
\* conversion whose calls return or raise reaches its end; one that entered its
\* target loop ends at "Conversion finished" with add_to_target having
\* returned True or False for every target, in order; no transfer calls
\* create_playlist more than once, so there are never more playlists than
\* targets begun
C30_Termination ==
    /\ [][Steps' < Steps]_vars
    /\ [](/\ Steps \in Nat
          /\ pc # "end" => ENABLED NextConvert
          /\ Len(CallsOf("create_playlist")) <= 1
          /\ Len(playlists) <= ti
          /\ Len(done) <= Len(resolved_targets)
          /\ (pc = "end" /\ resolved_targets # << >>) =>
              /\ outcome = "finished"
              /\ Len(done) = Len(resolved_targets)
              /\ \A i \in DOMAIN done :
                     /\ done[i].target = resolved_targets[i]
                     /\ done[i].ret \in {"True", "False"})

\* a conversion to two targets has ended; create_playlist raised for both
\* and was called once for each
C30_Witness ==
    /\ op = "convert" /\ pc = "end" /\ outcome = "finished"
    /\ Len(resolved_targets) = 2
    /\ Len(done) = 2
    /\ done[1].pid = 0 /\ done[2].pid = 0
    /\ playlists = << >>

====
